---------------------------- MODULE Spec2Model ----------------------------
(***************************************************************************)
(* Model of notebook/top-searcher-by-type: a straight-line polars script   *)
(* that reads two parquet files, filters the bundle table by mev_type,     *)
(* groups by mev_contract, sums profit_usd, sorts descending, keeps the    *)
(* first 30 rows and prints them.                                          *)
(*                                                                         *)
(* The script calls DataFrame.groupby and DataFrame.sort(reverse=True), so *)
(* it only runs on the polars releases that still have these names.  The   *)
(* library operators below follow those releases:                          *)
(*   - is_in answers false (not null) for a null value;                    *)
(*   - filter keeps the rows whose mask is true;                           *)
(*   - groupby without maintain_order returns the groups in an order the   *)
(*     library leaves unspecified;                                         *)
(*   - sum skips nulls, and the sum of a group holding only nulls is null; *)
(*   - sort(reverse=True) is a stable descending sort with nulls last.     *)
(* profit_usd is modelled by integers: rounding of floats is out of scope. *)
(***************************************************************************)
EXTENDS Integers, Sequences, FiniteSets

VARIABLES
    block_file,             \* ../db/parquet/block_table.parquet as found on disk
    bundle_file,            \* ../db/parquet/bundle_table.parquet as found on disk
    pc,                     \* position of the script
    blocks_df,              \* line 24
    bundles_df,             \* line 24
    filtered_bundles_df,    \* line 27
    top_searchers_by_pnl,   \* line 30
    stdout,                 \* what print has written
    error,                  \* the exception that ended the run, if any
    reaggregated            \* get_top_searchers_by_pnl applied to its own output

vars == <<block_file, bundle_file, pc, blocks_df, bundles_df,
          filtered_bundles_df, top_searchers_by_pnl, stdout, error,
          reaggregated>>

-----------------------------------------------------------------------------
(* Nullable values: a null is the empty tuple, a value v is <<v>>.         *)

Null == <<>>

Some(v) == <<v>>

Val(o) == o[1]

Min(a, b) == IF a <= b THEN a ELSE b

-----------------------------------------------------------------------------
(* Bounds of the model.                                                    *)

\* longest bundle table drawn from BundleRows
MaxRows == 3

\* largest rotation of the first-seen group order that groupby may return
MaxRot == 2

-----------------------------------------------------------------------------
(* Program constants.                                                      *)

\* head(30)
TopN == 30

\* is_in(["SearcherTx", "Unknown"])
ExcludedNoUnknown == {"SearcherTx"}

ExcludedTypes == {"SearcherTx", "Unknown"}

Header == "Top 30 Searchers by PNL (excluding SearcherTx and Unknown MEV types):"

BundleColumns == {"mev_type", "mev_contract", "profit_usd"}

TopColumns == {"mev_contract", "total_profit_usd"}

-----------------------------------------------------------------------------
(* Tables.  A DataFrame is its set of columns and its sequence of rows.    *)

DataFrame(cols, rows) == [columns |-> cols, rows |-> rows]

\* a variable the script has not assigned yet (every table read or made
\* by the script has a column)
NoFrame == DataFrame({}, <<>>)

Bundle(t, c, p) == [mev_type |-> t, mev_contract |-> c, profit_usd |-> p]

TopRow(c, t) == [mev_contract |-> c, total_profit_usd |-> t]

-----------------------------------------------------------------------------
(* pl.col("mev_type").is_in([...]), ~ and DataFrame.filter  (line 10).     *)
(* A boolean mask holds "T", "F" or "N" (null).                            *)

\* a later polars: a null value gives a null answer
IsInNullPropagating(v, values) ==
    IF v = Null THEN "N" ELSE IF Val(v) \in values THEN "T" ELSE "F"

\* is_in: membership of the value in the list; a null value is in no list
IsIn(v, values) ==
    IF v = Null THEN "F" ELSE IF Val(v) \in values THEN "T" ELSE "F"

\* ~ on a boolean expression
Invert(b) == CASE b = "T" -> "F" [] b = "F" -> "T" [] OTHER -> "N"

\* the mask of line 10, one entry per row
MevTypeMask(rows) ==
    [i \in 1..Len(rows) |-> Invert(IsIn(rows[i].mev_type, ExcludedTypes))]

RECURSIVE FilterRows(_, _)
\* DataFrame.filter: the rows whose mask entry is true, in their order
FilterRows(rows, mask) ==
    IF rows = <<>> THEN <<>>
    ELSE LET rest == FilterRows(Tail(rows), Tail(mask))
         IN  IF Head(mask) = "T" THEN <<Head(rows)>> \o rest ELSE rest

\* filter_mev_types(bundles_df), given that the column exists
filter_mev_types(df) ==
    DataFrame(df.columns, FilterRows(df.rows, MevTypeMask(df.rows)))

-----------------------------------------------------------------------------
(* groupby("mev_contract").agg([sum]).sort(reverse=True).head(30)          *)
(* (lines 15-17).                                                          *)

RECURSIVE UniqueKeys(_)
\* the distinct mev_contract values of the rows, first seen first
UniqueKeys(rows) ==
    IF rows = <<>> THEN <<>>
    ELSE LET n == Len(rows)
             u == UniqueKeys(SubSeq(rows, 1, n - 1))
             k == rows[n].mev_contract
         IN  IF \E j \in 1..Len(u) : u[j] = k THEN u ELSE Append(u, k)

Rotate(s, r) == SubSeq(s, r + 1, Len(s)) \o SubSeq(s, 1, r)

Reverse(s) == [i \in 1..Len(s) |-> s[Len(s) + 1 - i]]

\* the orders in which groupby (no maintain_order) may hand out its groups:
\* a rotation of the first-seen order, read forwards or backwards; for up
\* to three groups these are all their permutations
GroupOrders == [rot : 0..MaxRot, rev : BOOLEAN]

\* the group keys in the order groupby returns them under `order`
GroupKeys(rows, order) ==
    LET u == UniqueKeys(rows)
        r == IF u = <<>> THEN u ELSE Rotate(u, order.rot % Len(u))
    IN  IF order.rev THEN Reverse(r) ELSE r

RECURSIVE SumProfitNullAsZero(_, _)
\* a sum that starts from 0 whatever the group holds
SumProfitNullAsZero(rows, key) ==
    IF rows = <<>> THEN Some(0)
    ELSE LET rest == SumProfitNullAsZero(Tail(rows), key)
             r    == Head(rows)
         IN  IF r.mev_contract # key \/ r.profit_usd = Null THEN rest
             ELSE Some(Val(r.profit_usd) + Val(rest))

RECURSIVE SumProfitFirstOnly(_, _)
\* an aggregation that takes the group's first value instead of the sum
SumProfitFirstOnly(rows, key) ==
    IF rows = <<>> THEN Null
    ELSE LET r == Head(rows)
         IN  IF r.mev_contract # key \/ r.profit_usd = Null
             THEN SumProfitFirstOnly(Tail(rows), key)
             ELSE r.profit_usd

\* an aggregation that counts the group's rows instead of summing them
SumProfitAsCount(rows, key) ==
    Some(Cardinality({i \in 1..Len(rows) : rows[i].mev_contract = key}))

RECURSIVE SumProfitAllRows(_, _)
\* a sum over the whole column, the group key forgotten
SumProfitAllRows(rows, key) ==
    IF rows = <<>> THEN Null
    ELSE LET rest == SumProfitAllRows(Tail(rows), key)
             r    == Head(rows)
         IN  IF r.profit_usd = Null THEN rest
             ELSE IF rest = Null THEN r.profit_usd
             ELSE Some(Val(r.profit_usd) + Val(rest))

RECURSIVE SumProfit(_, _)
\* pl.col("profit_usd").sum() over the rows of group `key`: nulls are
\* skipped; a group with no non-null value sums to null
SumProfit(rows, key) ==
    IF rows = <<>> THEN Null
    ELSE LET rest == SumProfit(Tail(rows), key)
             r    == Head(rows)
         IN  IF r.mev_contract # key \/ r.profit_usd = Null THEN rest
             ELSE IF rest = Null THEN r.profit_usd
             ELSE Some(Val(r.profit_usd) + Val(rest))

\* groupby(...).agg([... .alias("total_profit_usd")]): one row per group
GroupbyAgg(rows, order) ==
    LET keys == GroupKeys(rows, order)
    IN  [i \in 1..Len(keys) |-> TopRow(keys[i], SumProfit(rows, keys[i]))]

\* a goes strictly before b in a descending sort, nulls last
Precedes(a, b) == a # Null /\ (b = Null \/ Val(a) > Val(b))

RECURSIVE InsertDesc(_, _)
\* x put behind every row that does not come strictly after it
InsertDesc(x, s) ==
    IF s = <<>> THEN <<x>>
    ELSE IF Precedes(x.total_profit_usd, Head(s).total_profit_usd)
         THEN <<x>> \o s
         ELSE <<Head(s)>> \o InsertDesc(x, Tail(s))

RECURSIVE SortDescStable(_)
\* insertion sort, last row last: rows of equal total keep their order
SortDescStable(s) ==
    IF s = <<>> THEN s
    ELSE InsertDesc(s[Len(s)], SortDescStable(SubSeq(s, 1, Len(s) - 1)))

\* a sort that forgot reverse=True
SortAscending(s) == Reverse(SortDescStable(s))

\* no sort at all: the frame stays in groupby's order
SortOmitted(s) == s

\* .sort("total_profit_usd", reverse=True)
SortDesc(s) == SortDescStable(s)

\* head(n) one row short
HeadOffByOne(s, n) == SubSeq(s, 1, Min(n - 1, Len(s)))

\* .head(n)
Head_(s, n) == SubSeq(s, 1, Min(n, Len(s)))

\* get_top_searchers_by_pnl(bundles_df), given that the columns exist
get_top_searchers_by_pnl(df, order) ==
    DataFrame(TopColumns, Head_(SortDesc(GroupbyAgg(df.rows, order)), TopN))

-----------------------------------------------------------------------------
(* The inputs: what the two parquet files may hold.                        *)

FileStatuses == {"ok", "missing", "malformed"}

\* rows of small bundle tables: every contract and profit under a kept
\* type, and a few rows of the excluded and the null type
BundleRows ==
    {Bundle(Some("Backrun"), c, p) :
        c \in {Null, Some(1), Some(2)}, p \in {Null, Some(-1), Some(1)}}
    \cup {Bundle(Some("SearcherTx"), Some(1), Some(1)),
          Bundle(Some("Unknown"), Some(2), Some(1)),
          Bundle(Null, Some(1), Some(1)),
          Bundle(Null, Null, Some(-1))}

SeqsUpTo(S, n) == UNION {[1..k -> S] : k \in 0..n}

SmallTables == SeqsUpTo(BundleRows, MaxRows)

\* the example of the specification, contracts A..D numbered 1..4
ExampleTable ==
    << Bundle(Some("Backrun"), Some(1), Some(10)),
       Bundle(Some("Backrun"), Some(1), Some(5)),
       Bundle(Some("Liquidation"), Some(2), Some(100)),
       Bundle(Some("SearcherTx"), Some(3), Some(1000)),
       Bundle(Some("Unknown"), Some(4), Some(500)) >>

\* k rows of k different contracts 1..k; four contracts in a row share a
\* profit, so that totals tie around the 30th place
BulkTable(k) == [i \in 1..k |-> Bundle(Some("Backrun"), Some(i), Some(i \div 4))]

\* tables with about TopN contracts: a bulk table and at most one more row
LargeTables ==
    {BulkTable(k) \o t : k \in {TopN - 1, TopN, TopN + 1},
                         t \in SeqsUpTo(BundleRows, 1)}

BundleTables == SmallTables \cup {ExampleTable} \cup LargeTables

\* a readable bundle file with its three columns
GoodBundleFile(rows) ==
    [status |-> "ok", columns |-> BundleColumns, rows |-> rows]

\* bundle files that are unreadable or lack columns hold at most one row
FaultyBundleFiles ==
    [status : FileStatuses, columns : (SUBSET BundleColumns) \ {{}},
     rows : SeqsUpTo(BundleRows, 1)]

-----------------------------------------------------------------------------
(* The script (lines 20-33).                                               *)

Init ==
    /\ block_file \in FileStatuses
    /\ \/ bundle_file \in {GoodBundleFile(t) : t \in BundleTables}
       \/ bundle_file \in FaultyBundleFiles
    /\ pc = "start"
    /\ blocks_df = "unset"
    /\ bundles_df = NoFrame
    /\ filtered_bundles_df = NoFrame
    /\ top_searchers_by_pnl = NoFrame
    /\ stdout = <<>>
    /\ error = "none"
    /\ reaggregated = NoFrame

\* an uncaught exception ends the process
Raise(e) ==
    /\ pc' = "failed"
    /\ error' = e

ReadError(status) ==
    IF status = "missing" THEN "FileNotFoundError" ELSE "ParseError"

\* the block table is never used: a read that shrugs off its failure
ReadBlocksLenient ==
    /\ pc = "start"
    /\ blocks_df' = IF block_file = "ok" THEN "block_table" ELSE "unset"
    /\ pc' = "blocks_read"
    /\ UNCHANGED <<block_file, bundle_file, bundles_df, filtered_bundles_df,
                   top_searchers_by_pnl, stdout, error, reaggregated>>

\* line 4: blocks_df = pl.read_parquet(path_to_blocks)
ReadBlocks ==
    /\ pc = "start"
    /\ IF block_file = "ok"
       THEN /\ blocks_df' = "block_table"
            /\ pc' = "blocks_read"
            /\ UNCHANGED error
       ELSE /\ Raise(ReadError(block_file))
            /\ UNCHANGED blocks_df
    /\ UNCHANGED <<block_file, bundle_file, bundles_df, filtered_bundles_df,
                   top_searchers_by_pnl, stdout, reaggregated>>

\* lines 5-6: bundles_df = pl.read_parquet(path_to_bundles); return
ReadBundles ==
    /\ pc = "blocks_read"
    /\ IF bundle_file.status = "ok"
       THEN /\ bundles_df' = DataFrame(bundle_file.columns, bundle_file.rows)
            /\ pc' = "loaded"
            /\ UNCHANGED error
       ELSE /\ Raise(ReadError(bundle_file.status))
            /\ UNCHANGED bundles_df
    /\ UNCHANGED <<block_file, bundle_file, blocks_df, filtered_bundles_df,
                   top_searchers_by_pnl, stdout, reaggregated>>

\* line 27: filtered_bundles_df = filter_mev_types(bundles_df)
FilterMevTypes ==
    /\ pc = "loaded"
    /\ IF "mev_type" \in bundles_df.columns
       THEN /\ filtered_bundles_df' = filter_mev_types(bundles_df)
            /\ pc' = "filtered"
            /\ UNCHANGED error
       ELSE /\ Raise("ColumnNotFoundError")
            /\ UNCHANGED filtered_bundles_df
    /\ UNCHANGED <<block_file, bundle_file, blocks_df, bundles_df,
                   top_searchers_by_pnl, stdout, reaggregated>>

\* line 30: top_searchers_by_pnl = get_top_searchers_by_pnl(filtered_bundles_df)
GetTopSearchersByPnl ==
    /\ pc = "filtered"
    /\ IF {"mev_contract", "profit_usd"} \subseteq filtered_bundles_df.columns
       THEN /\ \E order \in GroupOrders :
                 top_searchers_by_pnl' =
                     get_top_searchers_by_pnl(filtered_bundles_df, order)
            /\ pc' = "aggregated"
            /\ UNCHANGED error
       ELSE /\ Raise("ColumnNotFoundError")
            /\ UNCHANGED top_searchers_by_pnl
    /\ UNCHANGED <<block_file, bundle_file, blocks_df, bundles_df,
                   filtered_bundles_df, stdout, reaggregated>>

\* line 32: print("Top 30 Searchers by PNL ...")
PrintHeader ==
    /\ pc = "aggregated"
    /\ stdout' = Append(stdout, Header)
    /\ pc' = "header_printed"
    /\ UNCHANGED <<block_file, bundle_file, blocks_df, bundles_df,
                   filtered_bundles_df, top_searchers_by_pnl, error,
                   reaggregated>>

\* line 33: print(top_searchers_by_pnl)
PrintTable ==
    /\ pc = "header_printed"
    /\ stdout' = Append(stdout, top_searchers_by_pnl.rows)
    /\ pc' = "done"
    /\ UNCHANGED <<block_file, bundle_file, blocks_df, bundles_df,
                   filtered_bundles_df, top_searchers_by_pnl, error,
                   reaggregated>>

Next ==
    \/ ReadBlocks
    \/ ReadBundles
    \/ FilterMevTypes
    \/ GetTopSearchersByPnl
    \/ PrintHeader
    \/ PrintTable

Spec == Init /\ [][Next]_vars

\* get_top_searchers_by_pnl applied to its own output, total_profit_usd
\* standing in for profit_usd
AsBundles(df) ==
    DataFrame({"mev_contract", "profit_usd"},
              [i \in 1..Len(df.rows) |->
                  [mev_contract |-> df.rows[i].mev_contract,
                   profit_usd   |-> df.rows[i].total_profit_usd]])

Reaggregate ==
    /\ pc = "done"
    /\ reaggregated = NoFrame
    /\ \E order \in GroupOrders :
          reaggregated' =
              get_top_searchers_by_pnl(AsBundles(top_searchers_by_pnl), order)
    /\ UNCHANGED <<block_file, bundle_file, pc, blocks_df, bundles_df,
                   filtered_bundles_df, top_searchers_by_pnl, stdout, error>>

NextIdem ==
    \/ Next
    \/ Reaggregate

\* the script followed by a second aggregation of its result
SpecIdem == Init /\ [][NextIdem]_vars

-----------------------------------------------------------------------------
(* Vocabulary of the properties, defined on the tables alone.              *)

\* filter_mev_types has returned
FilterDone == filtered_bundles_df # NoFrame

\* get_top_searchers_by_pnl has returned
AggregateDone == top_searchers_by_pnl # NoFrame

In  == bundles_df.rows

Flt == filtered_bundles_df.rows

Top == top_searchers_by_pnl.rows

RECURSIVE Pick(_, _, _)
\* the rows of s at the indices K, from index i on, in their order
Pick(s, K, i) ==
    IF i > Len(s) THEN <<>>
    ELSE (IF i \in K THEN <<s[i]>> ELSE <<>>) \o Pick(s, K, i + 1)

Contracts(rows) == {rows[i].mev_contract : i \in 1..Len(rows)}

RECURSIVE SumAt(_, _)
\* the sum of profit_usd over the row indices S, all of them non-null
SumAt(rows, S) ==
    IF S = {} THEN 0
    ELSE LET i == CHOOSE j \in S : TRUE
         IN  Val(rows[i].profit_usd) + SumAt(rows, S \ {i})

\* indices of the rows of contract c that hold a profit
Valued(rows, c) ==
    {i \in 1..Len(rows) : rows[i].mev_contract = c /\ rows[i].profit_usd # Null}

\* the total of contract c: the sum of its profits, null when it has none
Total(rows, c) ==
    IF Valued(rows, c) = {} THEN Null ELSE Some(SumAt(rows, Valued(rows, c)))

\* the total of contract c with every null counted as 0
TotalNullAsZero(rows, c) == Some(SumAt(rows, Valued(rows, c)))

\* a >= b on totals, a null total ranking below every number
Geq(a, b) == b = Null \/ (a # Null /\ Val(a) >= Val(b))

\* a > b on totals, a null total ranking below every number
Gt(a, b) == a # Null /\ (b = Null \/ Val(a) > Val(b))

Totals(rows) == [i \in 1..Len(rows) |-> rows[i].total_profit_usd]

\* two contracts of the table have the same total
HasTie(rows) ==
    \E c, d \in Contracts(rows) : c # d /\ Total(rows, c) = Total(rows, d)

-----------------------------------------------------------------------------
(* C1: filter_mev_types returns rows of its input in their original order, *)
(* none with mev_type "SearcherTx" or "Unknown", and keeps every row whose *)
(* mev_type is a string other than these two.                              *)

C1_FilterKeepsOtherTypes ==
    FilterDone =>
        LET excluded == {i \in 1..Len(In) :
                            In[i].mev_type \in {Some("SearcherTx"), Some("Unknown")}}
            nulls    == {i \in 1..Len(In) : In[i].mev_type = Null}
            others   == (1..Len(In)) \ (excluded \cup nulls)
        IN  /\ \E N \in SUBSET nulls : Flt = Pick(In, others \cup N, 1)
            /\ \A j \in 1..Len(Flt) :
                  Flt[j].mev_type \notin {Some("SearcherTx"), Some("Unknown")}
            /\ filtered_bundles_df.columns = bundles_df.columns

\* the filter has dropped a row of each excluded type and kept a row behind one
C1_Witness ==
    /\ FilterDone
    /\ Len(In) = 3
    /\ In[1].mev_type = Some("SearcherTx")
    /\ In[2].mev_type = Some("Backrun")
    /\ In[3].mev_type = Some("Unknown")
    /\ Flt = <<In[2]>>

(* C2: filter_mev_types keeps every row whose mev_type is null: the null   *)
(* rows of the input are all in the output, in their order.                *)

NullTypeRows(rows) ==
    Pick(rows, {i \in 1..Len(rows) : rows[i].mev_type = Null}, 1)

C2_FilterKeepsNullTypes ==
    FilterDone => NullTypeRows(Flt) = NullTypeRows(In)

\* a table with a null mev_type next to an excluded one has been filtered
C2_Witness ==
    /\ FilterDone
    /\ \E i, j \in 1..Len(In) :
          In[i].mev_type = Null /\ In[j].mev_type = Some("Unknown")
    /\ \E k \in 1..Len(Flt) : Flt[k].mev_type = Null

(* C3: every output row of get_top_searchers_by_pnl carries a mev_contract *)
(* of the input, no mev_contract is in two output rows, and the row's      *)
(* total_profit_usd is the sum of profit_usd over the input rows of that   *)
(* mev_contract; rows (A,10),(A,5),(B,100) give [(B,100),(A,15)].          *)

C3_OneRowPerContractWithItsSum ==
    AggregateDone =>
        /\ \A j \in 1..Len(Top) :
              /\ Top[j].mev_contract \in Contracts(Flt)
              /\ Top[j].total_profit_usd = Total(Flt, Top[j].mev_contract)
              /\ \A k \in 1..Len(Top) :
                    Top[k].mev_contract = Top[j].mev_contract => k = j
        /\ In = ExampleTable =>
              Top = <<TopRow(Some(2), Some(100)), TopRow(Some(1), Some(15))>>

\* the example table has been aggregated
C3_Witness ==
    /\ AggregateDone
    /\ In = ExampleTable
    /\ Len(Flt) = 3
    /\ Len(Top) = 2

(* C4: get_top_searchers_by_pnl returns min(30, number of distinct         *)
(* mev_contract values) rows, a null key counting as a value of its own;   *)
(* an empty table gives an empty table and no error.                       *)

C4_RowCount ==
    /\ AggregateDone => Len(Top) = Min(TopN, Cardinality(Contracts(Flt)))
    /\ ( /\ FilterDone
         /\ Flt = <<>>
         /\ {"mev_contract", "profit_usd"} \subseteq filtered_bundles_df.columns
         /\ pc # "filtered" )
       => /\ error = "none"
          /\ top_searchers_by_pnl = DataFrame(TopColumns, <<>>)

\* thirty contracts and the null key: thirty-one groups cut to thirty rows
C4_Witness ==
    /\ AggregateDone
    /\ Null \in Contracts(Flt)
    /\ Cardinality(Contracts(Flt)) = TopN + 1
    /\ Len(Top) = TopN

(* C5: the output of get_top_searchers_by_pnl is sorted descending on      *)
(* total_profit_usd, and every group cut off by head(30) has a total no    *)
(* greater than that of the last row kept.  A null total ranks lowest.     *)

C5_SortedDescending ==
    AggregateDone =>
        /\ \A i \in 1..(Len(Top) - 1) :
              Geq(Top[i].total_profit_usd, Top[i + 1].total_profit_usd)
        /\ Cardinality(Contracts(Flt)) > TopN =>
              \A c \in Contracts(Flt) \ Contracts(Top) :
                  Geq(Top[Len(Top)].total_profit_usd, Total(Flt, c))

\* more than thirty groups, a strictly smaller one cut off, the kept rows
\* not all equal
C5_Witness ==
    /\ AggregateDone
    /\ Cardinality(Contracts(Flt)) > TopN
    /\ \E c \in Contracts(Flt) \ Contracts(Top) :
          Gt(Top[Len(Top)].total_profit_usd, Total(Flt, c))
    /\ Gt(Top[1].total_profit_usd, Top[Len(Top)].total_profit_usd)

(* C6: with fewer than 30 distinct mev_contract values, the sum of         *)
(* total_profit_usd over the output rows equals the sum of profit_usd over *)
(* the filtered input rows (nulls hold no amount).                         *)

SumOfProfits(rows) ==
    SumAt(rows, {i \in 1..Len(rows) : rows[i].profit_usd # Null})

SumOfTotals(rows) == SumOfProfits(AsBundles(DataFrame(TopColumns, rows)).rows)

C6_SumPreserved ==
    (AggregateDone /\ Cardinality(Contracts(Flt)) < TopN) =>
        SumOfTotals(Top) = SumOfProfits(Flt)

\* two groups, one of two rows, a negative profit among them
C6_Witness ==
    /\ AggregateDone
    /\ Len(Flt) = 3
    /\ Len(Top) = 2
    /\ \E i \in 1..3 : Flt[i].profit_usd = Some(-1)
    /\ \E i \in 1..3 : Flt[i].profit_usd = Some(1)
    /\ SumOfProfits(Flt) = SumOfTotals(Top)

(* C7: groups of equal total_profit_usd are ordered by a stable rule, so   *)
(* that the same input table always gives the same output rows in the same *)
(* order, and the same groups survive head(30).                            *)

\* what get_top_searchers_by_pnl may return for the filtered table
PossibleTops ==
    {get_top_searchers_by_pnl(filtered_bundles_df, order) : order \in GroupOrders}

\* C7 as stated: whatever order groupby hands out its groups in, the
\* output is the same
C7_SameInputSameOutput ==
    AggregateDone => PossibleTops = {top_searchers_by_pnl}

\* C7 as amended: the total at every place of the output is fixed by the input
\* (it is the i-th largest group total), and so is the whole output when no
\* two groups have the same total; tied groups come in groupby's order
C7_DeterminedUpToTies ==
    AggregateDone =>
        /\ \A i \in 1..Len(Top) :
              LET t == Top[i].total_profit_usd
              IN  /\ Cardinality({c \in Contracts(Flt) : Gt(Total(Flt, c), t)}) < i
                  /\ Cardinality({c \in Contracts(Flt) : Geq(Total(Flt, c), t)}) >= i
        /\ ~HasTie(Flt) => PossibleTops = {top_searchers_by_pnl}

\* C7 witness: tied groups around the 30th place: another run keeps other contracts
C7_Witness ==
    /\ AggregateDone
    /\ HasTie(Flt)
    /\ Cardinality(Contracts(Flt)) > TopN
    /\ \E other \in PossibleTops :
          /\ Contracts(other.rows) # Contracts(Top)
          /\ Totals(other.rows) = Totals(Top)

(* C8: get_top_searchers_by_pnl applied to its own output (total_profit_usd *)
(* read as profit_usd) returns the same rows in the same order.            *)

Again == reaggregated.rows

\* C8 as stated: the second aggregation returns the first one's table
C8_ReaggregationUnchanged ==
    reaggregated # NoFrame => reaggregated = top_searchers_by_pnl

\* C8 as amended: the same rows and the same totals place by place; a row
\* whose total no other row has keeps its place
C8_ReaggregationSameUpToTies ==
    reaggregated # NoFrame =>
        /\ reaggregated.columns = top_searchers_by_pnl.columns
        /\ Len(Again) = Len(Top)
        /\ {Again[i] : i \in 1..Len(Again)} = {Top[i] : i \in 1..Len(Top)}
        /\ Totals(Again) = Totals(Top)
        /\ \A i \in 1..Len(Top) :
              (\A k \in 1..Len(Top) :
                  Top[k].total_profit_usd = Top[i].total_profit_usd => k = i)
              => Again[i] = Top[i]

\* a second aggregation that moved tied rows and left an untied row in place
C8_Witness ==
    /\ reaggregated # NoFrame
    /\ Len(Top) = 3
    /\ Again # Top
    /\ Again[1] = Top[1]
    /\ Top[2].total_profit_usd = Top[3].total_profit_usd

(* C9: a null profit_usd adds 0 to its group's sum: the total of a group   *)
(* is the sum of its non-null values, and a group holding only nulls has   *)
(* total 0 (not null) and is still a row of the output.                    *)

\* C9 as stated: every total is the sum with nulls counted as 0, and no
\* group is missing while there are at most 30
C9_NullProfitCountsAsZero ==
    AggregateDone =>
        /\ \A j \in 1..Len(Top) :
              Top[j].total_profit_usd = TotalNullAsZero(Flt, Top[j].mev_contract)
        /\ Cardinality(Contracts(Flt)) <= TopN => Contracts(Top) = Contracts(Flt)

\* C9 as amended: nulls are skipped by the sum; a group holding only nulls has
\* total null, sorts behind every number and is a row unless head(30) cuts it
C9_NullProfitSkipped ==
    AggregateDone =>
        /\ \A j \in 1..Len(Top) :
              LET held == Valued(Flt, Top[j].mev_contract)
              IN  IF held = {} THEN Top[j].total_profit_usd = Null
                  ELSE Top[j].total_profit_usd = Some(SumAt(Flt, held))
        /\ \A i, j \in 1..Len(Top) :
              (i < j /\ Top[i].total_profit_usd = Null)
                  => Top[j].total_profit_usd = Null
        /\ Cardinality(Contracts(Flt)) <= TopN => Contracts(Top) = Contracts(Flt)

\* a group of nulls only behind a group of a null and a value
C9_Witness ==
    /\ AggregateDone
    /\ Len(Flt) = 3
    /\ Len(Top) = 2
    /\ Top[1].total_profit_usd = Some(-1)
    /\ Top[2].total_profit_usd = Null
    /\ \E i \in 1..3 : /\ Flt[i].mev_contract = Top[1].mev_contract
                       /\ Flt[i].profit_usd = Null

(* C10: the stages run in the order load blocks, load bundles, filter,     *)
(* aggregate, print; a stage that fails (the unused block table included)  *)
(* ends the run: nothing is caught or retried, no later stage runs and     *)
(* nothing has been printed; header and table are printed only after the   *)
(* aggregation has returned.                                               *)

StageOrder ==
    << "start", "blocks_read", "loaded", "filtered", "aggregated",
       "header_printed", "done" >>

Stage(p) == CHOOSE i \in 1..Len(StageOrder) : StageOrder[i] = p

\* the last stage the inputs allow the run to complete
LastStage ==
    IF block_file # "ok" THEN 1
    ELSE IF bundle_file.status # "ok" THEN 2
    ELSE IF "mev_type" \notin bundle_file.columns THEN 3
    ELSE IF ~({"mev_contract", "profit_usd"} \subseteq bundle_file.columns) THEN 4
    ELSE 7

AllOrNothing ==
    /\ pc # "failed" => /\ Stage(pc) <= LastStage
                        /\ error = "none"
    /\ pc = "failed" => /\ error # "none"
                        /\ stdout = <<>>
                        /\ LastStage < 7
                        /\ (blocks_df # "unset") = (LastStage >= 2)
                        /\ (bundles_df # NoFrame) = (LastStage >= 3)
                        /\ FilterDone = (LastStage >= 4)
                        /\ ~AggregateDone
    /\ stdout # <<>> => /\ AggregateDone
                        /\ pc \in {"header_printed", "done"}
                        /\ stdout[1] = Header
    /\ pc = "done" => stdout = <<Header, Top>>

\* a step takes the run to the next stage or ends it; nothing follows a failure
InOrder ==
    /\ pc # "failed"
    /\ \/ pc' = "failed" /\ Stage(pc) = LastStage
       \/ pc' # "failed" /\ Stage(pc') = Stage(pc) + 1

C10_AllOrNothingInOrder == []AllOrNothing /\ [][InOrder]_vars

\* the block table could not be read: the run ended there, silently, although
\* the bundle table was fine
C10_Witness ==
    /\ pc = "failed"
    /\ block_file = "missing"
    /\ bundle_file = GoodBundleFile(ExampleTable)
    /\ bundles_df = NoFrame
    /\ stdout = <<>>

=============================================================================
